---- MODULE Spec2Model ----
(***************************************************************************)
(* A model of the term-salience engine of analysis/find_most_salient.py:   *)
(* the tokenizer, the frequency model (tf, idf, tf-idf), the ranker        *)
(* find_most_salient and the corpus builders build_simple_corpus and       *)
(* build_comprehensive_corpus.                                             *)
(*                                                                         *)
(* Representation.                                                         *)
(*  - A Python dict is a sequence of [key, val] records with distinct keys, *)
(*    in insertion order (the order dict.items() enumerates).              *)
(*  - A Python list is a sequence; a str is a sequence of characters.  The  *)
(*    frequency model and the ranker only compare tokens, so there a token *)
(*    is an atom ("a", "b", "c").                                          *)
(*  - A float is an IEEE-754 double, its arithmetic rounded as the         *)
(*    hardware rounds it; the logarithm is a table of the doubles          *)
(*    math.log returns.                                                    *)
(*  - A call's outcome is a record [err, val]: err = "none" for a normal   *)
(*    return, otherwise the name of the exception raised.                  *)
(***************************************************************************)
EXTENDS Integers, Sequences, FiniteSets, TLC

VARIABLES
    \* find_most_salient(corpus, k): its arguments, its position, the number of
    \* documents the loop has finished, its result dict, the exception raised,
    \* and the calls of calculate_idf made so far (term, docs_with_term).
    corpus, k, pc, idx, k_most_salient, fms_err, idf_calls,
    \* create_list_tokens(document): argument, locals, position.
    document, raw_tokens, tok_i, cleaned_list, tok_pc,
    \* calculate_tf(term, token_counts): arguments, position, outcome.
    tf_term, token_counts, tf_pc, tf_result,
    \* calculate_idf(term, corpus): arguments, position, outcome.
    idf_term, idf_corpus, idf_pc, idf_result,
    \* build_simple_corpus(df, index, doc_col, filter_by): arguments (the rows
    \* of df, filter_by), the frame after line 264, loop index, result dict,
    \* position, the exception raised.
    df, filter_by, frame, row_i, b_corpus, b_pc, b_err,
    \* build_comprehensive_corpus(trans_df, ep_df): arguments (their rows), the
    \* merged frame, the result dict, position, the exception raised.
    trans_df, ep_df, merged_df, c_corpus, c_pc, c_err

rankVars == <<corpus, k, pc, idx, k_most_salient, fms_err, idf_calls>>
tokVars == <<document, raw_tokens, tok_i, cleaned_list, tok_pc>>
tfVars == <<tf_term, token_counts, tf_pc, tf_result>>
idfVars == <<idf_term, idf_corpus, idf_pc, idf_result>>
buildVars == <<df, filter_by, frame, row_i, b_corpus, b_pc, b_err>>
compVars == <<trans_df, ep_df, merged_df, c_corpus, c_pc, c_err>>
vars == <<rankVars, tokVars, tfVars, idfVars, buildVars, compVars>>

----------------------------------------------------------------------------
(* Bounds of the model. *)

\* The most tokens a corpus (all its documents together) or one document holds.
MaxTokens == 4
\* The most documents of a corpus.
MaxDocs == 2
\* The largest k asked for.
MaxK == 2

Terms == {"a", "b", "c"}
\* A term that occurs in no document.
AbsentTerm == "z"
DocIds == <<"d1", "d2", "d3", "d4", "d5", "d6", "d7", "d8">>

\* Every sequence over S of length at most n.
SeqsUpTo(S, n) == UNION {[1..m -> S] : m \in 0..n}

----------------------------------------------------------------------------
(* Python dict, as an insertion-ordered sequence of [key, val]. *)

DictHas(d, key) == \E i \in 1..Len(d) : d[i].key = key
DictGet(d, key) == d[CHOOSE i \in 1..Len(d) : d[i].key = key].val
DictSet(d, key, val) ==
    IF DictHas(d, key)
    THEN [i \in 1..Len(d) |-> IF d[i].key = key THEN [key |-> key, val |-> val] ELSE d[i]]
    ELSE Append(d, [key |-> key, val |-> val])
DictKeys(d) == {d[i].key : i \in 1..Len(d)}

Ok(v) == [err |-> "none", val |-> v]
Raise(e) == [err |-> e, val |-> 0]

----------------------------------------------------------------------------
(* Python floats: IEEE-754 binary64, rounded to nearest, ties to even.  A   *)
(* float is [neg, exp, man]: zero has man = 0, any other float is          *)
(* (-1)^neg * man * 2^(exp - 52) with 2^52 <= man < 2^53.  A mantissa, and *)
(* every natural number the arithmetic goes through, is a sequence of      *)
(* digits in base 2^14, the least significant first.  The exponents the    *)
(* model meets are far from the subnormal and the infinite.                *)

LimbBits == 14
LimbBase == 16384
\* Digits of a number in the making: enough for the product of two mantissas.
BigLen == 8
ManLen == 4
ManBits == 53

\* 2^n for n in 0..LimbBits.
PowersOf2 == <<1, 2, 4, 8, 16, 32, 64, 128, 256, 512, 1024, 2048, 4096, 8192, 16384>>
Pow2(n) == PowersOf2[n + 1]

Limb(P, i) == IF i \in 1..Len(P) THEN P[i] ELSE 0

\* The digits of column sums, the carries moved up.
RECURSIVE Carried(_, _)
Carried(cols, carry) ==
    IF cols = <<>> THEN <<>>
    ELSE LET t == Head(cols) + carry
         IN <<t % LimbBase>> \o Carried(Tail(cols), t \div LimbBase)

\* n < 2^28
BigOf(n) == Carried([i \in 1..BigLen |-> IF i = 1 THEN n ELSE 0], 0)
BigIsZero(P) == \A i \in 1..Len(P) : P[i] = 0
BigAdd(P, Q) == Carried([i \in 1..BigLen |-> Limb(P, i) + Limb(Q, i)], 0)
\* P < 2^56
BigMul(P, Q) ==
    Carried([i \in 1..BigLen |->
                Limb(P, 1) * Limb(Q, i) + Limb(P, 2) * Limb(Q, i - 1)
                    + Limb(P, 3) * Limb(Q, i - 2) + Limb(P, 4) * Limb(Q, i - 3)], 0)
BigShiftLeft(P, s) ==
    LET q == s \div LimbBits
        r == s % LimbBits
    IN [i \in 1..BigLen |->
           ((Limb(P, i - q) * Pow2(r)) % LimbBase)
               + (Limb(P, i - q - 1) \div Pow2(LimbBits - r))]
BigShiftRight(P, s) ==
    LET q == s \div LimbBits
        r == s % LimbBits
    IN [i \in 1..BigLen |->
           (Limb(P, i + q) \div Pow2(r))
               + ((Limb(P, i + q + 1) % Pow2(r)) * Pow2(LimbBits - r))]
BigLess(P, Q) ==
    \E i \in 1..BigLen :
        /\ Limb(P, i) < Limb(Q, i)
        /\ \A j \in (i + 1)..BigLen : Limb(P, j) = Limb(Q, j)
\* The quotient and the remainder of P by a number m < 2^14.
RECURSIVE BigDivSmall(_, _, _)
BigDivSmall(P, m, i) ==
    IF i > Len(P) THEN [quot |-> <<>>, rem |-> 0]
    ELSE LET high == BigDivSmall(P, m, i + 1)
             t == high.rem * LimbBase + P[i]
         IN [quot |-> <<t \div m>> \o high.quot, rem |-> t % m]
\* The number of binary digits of P.
RECURSIVE BitsOf(_)
BitsOf(n) == IF n = 0 THEN 0 ELSE 1 + BitsOf(n \div 2)
BigBitLen(P) ==
    IF BigIsZero(P) THEN 0
    ELSE LET top == CHOOSE i \in 1..Len(P) :
                        P[i] # 0 /\ \A j \in (i + 1)..Len(P) : P[j] = 0
         IN (top - 1) * LimbBits + BitsOf(P[top])
BigBit(P, b) == (Limb(P, (b \div LimbBits) + 1) \div Pow2(b % LimbBits)) % 2

\* P / 2^s rounded to the nearest integer, a tie to the even one; q is P
\* without its last s binary digits.
RoundsUp(P, s, q) ==
    /\ s > 0
    /\ BigBit(P, s - 1) = 1
    /\ \/ BigShiftLeft(BigShiftRight(P, s - 1), s - 1) # P
       \/ q[1] % 2 = 1
RoundTo(P, s, q) == IF RoundsUp(P, s, q) THEN BigAdd(q, BigOf(1)) ELSE q
RoundShift(P, s) == RoundTo(P, s, BigShiftRight(P, s))

FloatZero == [neg |-> FALSE, exp |-> 0, man |-> [i \in 1..ManLen |-> 0]]
IsZero(x) == BigIsZero(x.man)

\* The float nearest to (-1)^neg * P * 2^e, P > 0 of len binary digits: P
\* rounded to ManBits digits, and the digit a carry out of the rounding adds
\* dropped again.
Mantissa(P, len) ==
    IF len > ManBits THEN RoundShift(P, len - ManBits)
    ELSE BigShiftLeft(P, ManBits - len)
Packed(neg, e, m, mlen) ==
    [neg |-> neg,
     exp |-> e + (IF mlen > ManBits THEN 1 ELSE 0),
     man |-> SubSeq(IF mlen > ManBits THEN BigShiftRight(m, 1) ELSE m, 1, ManLen)]
Normalised(neg, e, m) == Packed(neg, e, m, BigBitLen(m))
MakeFloatOfLen(neg, P, e, len) == Normalised(neg, e + len - 1, Mantissa(P, len))
MakeFloat(neg, P, e) == MakeFloatOfLen(neg, P, e, BigBitLen(P))

\* 0.5
Half == [neg |-> FALSE, exp |-> -1, man |-> <<0, 0, 0, 1024>>]
\* 1.0
One == [neg |-> FALSE, exp |-> 0, man |-> <<0, 0, 0, 1024>>]

WithSticky(d) ==
    [d.quot EXCEPT ![1] = @ + (IF d.rem # 0 /\ d.quot[1] % 2 = 0 THEN 1 ELSE 0)]
\* a / b for ints 0 <= a < 2^14, 0 < b < 2^14: the quotient to 70 binary
\* places, its last digit set when the division leaves a remainder.
TrueDiv(a, b) ==
    IF a = 0 THEN FloatZero
    ELSE MakeFloat(FALSE, WithSticky(BigDivSmall(BigShiftLeft(BigOf(a), 70), b, 1)), -70)

\* x * y
FloatMul(x, y) ==
    IF IsZero(x) \/ IsZero(y) THEN FloatZero
    ELSE MakeFloat(x.neg # y.neg, BigMul(x.man, y.man),
                   (x.exp - 52) + (y.exp - 52))

\* hi + lo for hi, lo > 0, the exponent of hi the larger by d.
AddAligned(hi, lo, d) ==
    IF d > ManBits + 2 THEN hi
    ELSE MakeFloat(FALSE, BigAdd(BigShiftLeft(hi.man, d), lo.man), lo.exp - 52)
\* x + y for x, y >= 0.
FloatAdd(x, y) ==
    IF IsZero(x) THEN y
    ELSE IF IsZero(y) THEN x
    ELSE IF x.exp >= y.exp THEN AddAligned(x, y, x.exp - y.exp)
    ELSE AddAligned(y, x, y.exp - x.exp)

\* x < y
MagnitudeLess(x, y) ==
    IF IsZero(y) THEN FALSE
    ELSE IF IsZero(x) THEN TRUE
    ELSE x.exp < y.exp \/ (x.exp = y.exp /\ BigLess(x.man, y.man))
FloatLess(x, y) ==
    IF x.neg # y.neg THEN x.neg
    ELSE IF x.neg THEN MagnitudeLess(y, x)
    ELSE MagnitudeLess(x, y)
FloatLeq(x, y) == ~FloatLess(y, x)
IntLeq(x, y) == x <= y

----------------------------------------------------------------------------
(* count_distinct_tokens: the dict after the loop over list_of_tokens. *)

RECURSIVE count_distinct_tokens(_, _)
count_distinct_tokens(list_of_tokens, tc) ==
    IF list_of_tokens = <<>> THEN tc
    ELSE LET token == Head(list_of_tokens)
             updated == IF ~DictHas(tc, token)
                        THEN DictSet(tc, token, 1)
                        ELSE DictSet(tc, token, DictGet(tc, token) + 1)
         IN count_distinct_tokens(Tail(list_of_tokens), updated)

(* sorted(items, key = x[1], reverse = reverse): a stable sort, in both     *)
(* directions items of equal value keep their order in the dict.           *)
(* The values are ints (counts) or floats (scores); each has its order.    *)
SortedInsert(sorted, item, before) ==
    LET p == Cardinality(before)
    IN SubSeq(sorted, 1, p) \o <<item>> \o SubSeq(sorted, p + 1, Len(sorted))

RECURSIVE SortedInts(_, _, _)
SortedInts(items, sorted, reverse) ==
    IF items = <<>> THEN sorted
    ELSE LET item == Head(items)
             before == {i \in 1..Len(sorted) :
                            IF reverse THEN sorted[i].val >= item.val
                            ELSE sorted[i].val <= item.val}
         IN SortedInts(Tail(items), SortedInsert(sorted, item, before), reverse)

RECURSIVE SortedFloats(_, _, _)
SortedFloats(items, sorted, reverse) ==
    IF items = <<>> THEN sorted
    ELSE LET item == Head(items)
             before == {i \in 1..Len(sorted) :
                            IF reverse THEN FloatLeq(item.val, sorted[i].val)
                            ELSE FloatLeq(sorted[i].val, item.val)}
         IN SortedFloats(Tail(items), SortedInsert(sorted, item, before), reverse)

\* sort_by_count of a dict of counts (ints).
sort_by_count(tc, reverse) == SortedInts(tc, <<>>, reverse)

\* The same sorting in ascending order whatever reverse is.
sort_by_count_floats_ascending(token_to_tfidf, reverse) ==
    SortedFloats(token_to_tfidf, <<>>, FALSE)
\* sort_by_count of a dict of tf-idf values (floats).
sort_by_count_floats(token_to_tfidf, reverse) ==
    SortedFloats(token_to_tfidf, <<>>, reverse)

----------------------------------------------------------------------------
(* calculate_tf *)

\* sort_by_count(tc)[0][1]: the first item of an empty list is an
\* IndexError.
FirstCount(sorted) ==
    IF sorted = <<>> THEN Raise("IndexError") ELSE Ok(sorted[1].val)

\* 0.5 + (0.5 * (f_td / max_ftd))
AugmentedTfOf(f_td, max_ftd) == FloatAdd(Half, FloatMul(Half, TrueDiv(f_td, max_ftd)))
\* The same, the values for the counts a document of the model can hold
\* computed once.
AugmentedTfTable ==
    [f_td \in 1..(2 * MaxTokens) |->
        [max_ftd \in 1..(2 * MaxTokens) |-> AugmentedTfOf(f_td, max_ftd)]]
AugmentedTf(f_td, max_ftd) ==
    IF f_td \in 1..(2 * MaxTokens) /\ max_ftd \in 1..(2 * MaxTokens)
    THEN AugmentedTfTable[f_td][max_ftd]
    ELSE AugmentedTfOf(f_td, max_ftd)

\* The same with the modal count looked up before the membership test.
calculate_tf_max_first(term, tc) ==
    LET max_ftd == FirstCount(sort_by_count(tc, TRUE))
    IN IF max_ftd.err # "none" THEN max_ftd
       ELSE IF ~DictHas(tc, term) THEN Ok(FloatZero)
       ELSE Ok(AugmentedTf(DictGet(tc, term), max_ftd.val))

\* "return 0" returns the int 0, which equals the float 0.0 and multiplies
\* as it does.
calculate_tf(term, tc) ==
    IF ~DictHas(tc, term) THEN Ok(FloatZero)
    ELSE LET f_td == DictGet(tc, term)
             max_ftd == FirstCount(sort_by_count(tc, TRUE))
         IN IF max_ftd.err # "none" THEN max_ftd
            ELSE Ok(AugmentedTf(f_td, max_ftd.val))

----------------------------------------------------------------------------
(* count_documents_with_term, calculate_idf *)

\* The same with the test "term in document" (the key) for "term in tokens".
RECURSIVE count_documents_with_term_in_key(_, _)
count_documents_with_term_in_key(term, cps) ==
    IF cps = <<>> THEN 0
    ELSE (IF Head(cps).key = term THEN 1 ELSE 0)
         + count_documents_with_term_in_key(term, Tail(cps))

RECURSIVE count_documents_with_term(_, _)
count_documents_with_term(term, cps) ==
    IF cps = <<>> THEN 0
    ELSE (IF \E i \in 1..Len(Head(cps).val) : Head(cps).val[i] = term THEN 1 ELSE 0)
         + count_documents_with_term(term, Tail(cps))

\* LogTable[n][d] is the float math.log(n / d) returns, for n and d in 1..8.
LogTable ==
    << << FloatZero,
          [neg |-> TRUE, exp |-> -1, man |-> <<14831, 15336, 9263, 1419>>],
          [neg |-> TRUE, exp |-> 0, man |-> <<779, 10932, 16039, 1124>>],
          [neg |-> TRUE, exp |-> 0, man |-> <<14831, 15336, 9263, 1419>>],
          [neg |-> TRUE, exp |-> 0, man |-> <<3379, 8118, 1055, 1648>>],
          [neg |-> TRUE, exp |-> 0, man |-> <<8194, 10408, 12479, 1834>>],
          [neg |-> TRUE, exp |-> 0, man |-> <<6744, 14537, 10026, 1992>>],
          [neg |-> TRUE, exp |-> 1, man |-> <<11123, 15598, 11043, 1064>>] >>,
       << [neg |-> FALSE, exp |-> -1, man |-> <<14831, 15336, 9263, 1419>>],
          FloatZero,
          [neg |-> TRUE, exp |-> -2, man |-> <<6221, 13054, 12862, 1660>>],
          [neg |-> TRUE, exp |-> -1, man |-> <<14831, 15336, 9263, 1419>>],
          [neg |-> TRUE, exp |-> -1, man |-> <<8311, 899, 9231, 1876>>],
          [neg |-> TRUE, exp |-> 0, man |-> <<779, 10932, 16039, 1124>>],
          [neg |-> TRUE, exp |-> 0, man |-> <<15712, 15060, 13586, 1282>>],
          [neg |-> TRUE, exp |-> 0, man |-> <<14831, 15336, 9263, 1419>>] >>,
       << [neg |-> FALSE, exp |-> 0, man |-> <<779, 10932, 16039, 1124>>],
          [neg |-> FALSE, exp |-> -2, man |-> <<6220, 13054, 12862, 1660>>],
          FloatZero,
          [neg |-> TRUE, exp |-> -2, man |-> <<7058, 1235, 5665, 1178>>],
          [neg |-> TRUE, exp |-> -1, man |-> <<5202, 10756, 2799, 1046>>],
          [neg |-> TRUE, exp |-> -1, man |-> <<14831, 15336, 9263, 1419>>],
          [neg |-> TRUE, exp |-> -1, man |-> <<11930, 7210, 4358, 1735>>],
          [neg |-> TRUE, exp |-> -1, man |-> <<10168, 7762, 12096, 2008>>] >>,
       << [neg |-> FALSE, exp |-> 0, man |-> <<14831, 15336, 9263, 1419>>],
          [neg |-> FALSE, exp |-> -1, man |-> <<14831, 15336, 9263, 1419>>],
          [neg |-> FALSE, exp |-> -2, man |-> <<7057, 1235, 5665, 1178>>],
          FloatZero,
          [neg |-> TRUE, exp |-> -3, man |-> <<6688, 7786, 16252, 1827>>],
          [neg |-> TRUE, exp |-> -2, man |-> <<6221, 13054, 12862, 1660>>],
          [neg |-> TRUE, exp |-> -1, man |-> <<209, 14785, 1525, 1146>>],
          [neg |-> TRUE, exp |-> -1, man |-> <<14831, 15336, 9263, 1419>>] >>,
       << [neg |-> FALSE, exp |-> 0, man |-> <<3379, 8118, 1055, 1648>>],
          [neg |-> FALSE, exp |-> -1, man |-> <<8312, 899, 9231, 1876>>],
          [neg |-> FALSE, exp |-> -1, man |-> <<5202, 10756, 2799, 1046>>],
          [neg |-> FALSE, exp |-> -3, man |-> <<6690, 7786, 16252, 1827>>],
          FloatZero,
          [neg |-> TRUE, exp |-> -3, man |-> <<5749, 1938, 9473, 1493>>],
          [neg |-> TRUE, exp |-> -2, man |-> <<13455, 9292, 3117, 1378>>],
          [neg |-> TRUE, exp |-> -2, man |-> <<9934, 10396, 2209, 1925>>] >>,
       << [neg |-> FALSE, exp |-> 0, man |-> <<8194, 10408, 12479, 1834>>],
          [neg |-> FALSE, exp |-> 0, man |-> <<779, 10932, 16039, 1124>>],
          [neg |-> FALSE, exp |-> -1, man |-> <<14831, 15336, 9263, 1419>>],
          [neg |-> FALSE, exp |-> -2, man |-> <<6220, 13054, 12862, 1660>>],
          [neg |-> FALSE, exp |-> -3, man |-> <<5749, 1938, 9473, 1493>>],
          FloatZero,
          [neg |-> TRUE, exp |-> -3, man |-> <<4779, 263, 13146, 1262>>],
          [neg |-> TRUE, exp |-> -2, man |-> <<7058, 1235, 5665, 1178>>] >>,
       << [neg |-> FALSE, exp |-> 0, man |-> <<6743, 14537, 10026, 1992>>],
          [neg |-> FALSE, exp |-> 0, man |-> <<15712, 15060, 13586, 1282>>],
          [neg |-> FALSE, exp |-> -1, man |-> <<11930, 7210, 4358, 1735>>],
          [neg |-> FALSE, exp |-> -1, man |-> <<208, 14785, 1525, 1146>>],
          [neg |-> FALSE, exp |-> -2, man |-> <<13455, 9292, 3117, 1378>>],
          [neg |-> FALSE, exp |-> -3, man |-> <<4779, 263, 13146, 1262>>],
          FloatZero,
          [neg |-> TRUE, exp |-> -3, man |-> <<9340, 2207, 14568, 1093>>] >>,
       << [neg |-> FALSE, exp |-> 1, man |-> <<11123, 15598, 11043, 1064>>],
          [neg |-> FALSE, exp |-> 0, man |-> <<14831, 15336, 9263, 1419>>],
          [neg |-> FALSE, exp |-> -1, man |-> <<10168, 7762, 12096, 2008>>],
          [neg |-> FALSE, exp |-> -1, man |-> <<14831, 15336, 9263, 1419>>],
          [neg |-> FALSE, exp |-> -2, man |-> <<9935, 10396, 2209, 1925>>],
          [neg |-> FALSE, exp |-> -2, man |-> <<7057, 1235, 5665, 1178>>],
          [neg |-> FALSE, exp |-> -3, man |-> <<9338, 2207, 14568, 1093>>],
          FloatZero >> >>

\* math.log(n / d) for ints n, d > 0.
MathLog(n, d) == LogTable[n][d]

\* The same with the quotient upside down: log(docs_with_term / len(corpus)).
calculate_idf_inverted(term, cps) ==
    LET docs_with_term == count_documents_with_term(term, cps)
    IN IF docs_with_term = 0 THEN Raise("ZeroDivisionError")
       ELSE Ok(MathLog(docs_with_term, Len(cps)))

calculate_idf(term, cps) ==
    LET docs_with_term == count_documents_with_term(term, cps)
    IN IF docs_with_term = 0 THEN Raise("ZeroDivisionError")
       ELSE Ok(MathLog(Len(cps), docs_with_term))

----------------------------------------------------------------------------
(* calculate_tfidf, build_dictionary *)

calculate_tfidf(term, document_tokens, cps) ==
    LET token_frequency_map == count_distinct_tokens(document_tokens, <<>>)
        tf == calculate_tf(term, token_frequency_map)
        idf == calculate_idf(term, cps)
    IN IF tf.err # "none" THEN tf
       ELSE IF idf.err # "none" THEN idf
       ELSE Ok(FloatMul(tf.val, idf.val))

\* The loop of build_dictionary; an exception of calculate_tfidf ends it.
RECURSIVE build_dictionary_from(_, _, _, _)
build_dictionary_from(rest, doc, cps, token_to_tfidf) ==
    IF rest = <<>> THEN Ok(token_to_tfidf)
    ELSE LET token == Head(rest)
         IN IF ~DictHas(token_to_tfidf, token)
            THEN LET r == calculate_tfidf(token, doc, cps)
                 IN IF r.err # "none" THEN [err |-> r.err, val |-> <<>>]
                    ELSE build_dictionary_from(Tail(rest), doc, cps,
                                               DictSet(token_to_tfidf, token, r.val))
            ELSE build_dictionary_from(Tail(rest), doc, cps, token_to_tfidf)

build_dictionary(doc, cps) == build_dictionary_from(doc, doc, cps, <<>>)

----------------------------------------------------------------------------
(* find_most_salient *)

\* sorted_list[:k + 1]
SliceToInclusive(s, n) == SubSeq(s, 1, IF n + 1 < Len(s) THEN n + 1 ELSE Len(s))
\* sorted_list[-k:] (the whole list for k = 0)
SliceLast(s, n) == IF n = 0 \/ n >= Len(s) THEN s ELSE SubSeq(s, Len(s) - n + 1, Len(s))

\* sorted_list[:k] for k >= 0.
SliceTo(s, n) == SubSeq(s, 1, IF n < Len(s) THEN n ELSE Len(s))

\* The tokens of sorted_list[:k], in order.
TokensOf(pairs) == [i \in 1..Len(pairs) |-> pairs[i].key]

\* One iteration of the loop over corpus.items(): the list for one document.
most_salient_by_doc(tokens, cps, kk) ==
    IF tokens # <<>>
    THEN LET token_to_tfidf == build_dictionary(tokens, cps)
         IN IF token_to_tfidf.err # "none" THEN token_to_tfidf
            ELSE Ok(TokensOf(SliceTo(sort_by_count_floats(token_to_tfidf.val, TRUE), kk)))
    ELSE Ok(<<>>)

\* The calls of calculate_idf that build_dictionary(document, corpus) makes,
\* each with the count it divides by: one for every token not yet in
\* token_to_tfidf, calculate_tf having returned, up to the first that raises.
RECURSIVE idf_calls_from(_, _, _, _)
idf_calls_from(rest, doc, cps, seen) ==
    IF rest = <<>> THEN {}
    ELSE LET token == Head(rest)
         IN IF token \in seen THEN idf_calls_from(Tail(rest), doc, cps, seen)
            ELSE IF calculate_tf(token, count_distinct_tokens(doc, <<>>)).err # "none"
                 THEN {}
            ELSE {[term |-> token,
                   docs_with_term |-> count_documents_with_term(token, cps)]}
                 \cup (IF calculate_idf(token, cps).err # "none" THEN {}
                       ELSE idf_calls_from(Tail(rest), doc, cps, seen \cup {token}))
\* "if tokens:" guards the call of build_dictionary.
idf_calls_of(tokens, cps) ==
    IF tokens # <<>> THEN idf_calls_from(tokens, tokens, cps, {}) ELSE {}

\* Line 195 with the list stored into the corpus as well.
objects_after_document_into_corpus(cps, kms, doc_id, most_salient) ==
    [corpus |-> DictSet(cps, doc_id, most_salient),
     k_most_salient |-> DictSet(kms, doc_id, most_salient)]

\* The iteration with "k_most_salient = {}" inside the loop.
objects_after_document_fresh_dict(cps, kms, doc_id, most_salient) ==
    [corpus |-> cps, k_most_salient |-> DictSet(<<>>, doc_id, most_salient)]

\* The two dicts after one iteration of the loop.  The iteration reads the
\* corpus and its lists (items(), "in", len, iteration) and writes to the
\* fresh lists and dicts it makes; its one write to an object that outlives
\* it is k_most_salient[doc_id] = most_salient_by_doc (line 195).
objects_after_document(cps, kms, doc_id, most_salient) ==
    [corpus |-> cps, k_most_salient |-> DictSet(kms, doc_id, most_salient)]

\* The corpora the ranker is run on: up to MaxDocs documents holding up to
\* MaxTokens tokens together, the corpus of the end-to-end scenario, and a
\* corpus of eight documents in whose first document (2/3) * ln 8 meets
\* 1 * ln 4: two scores one number apart in their last binary digits.
MakeCorpus(docs) == [i \in 1..Len(docs) |-> [key |-> DocIds[i], val |-> docs[i]]]
ScenarioCorpus == MakeCorpus(<< <<"a", "a", "b">>, <<"b", "c">>, <<"a", "c", "c">> >>)

\* The n documents a token sequence s is cut into at the places cuts.
SplitAt(s, cuts) ==
    LET b == <<0>> \o cuts \o <<Len(s)>>
    IN [i \in 1..(Len(cuts) + 1) |-> SubSeq(s, b[i] + 1, b[i + 1])]
CutsOf(len, n) ==
    {c \in [1..(n - 1) -> 0..len] : \A i \in 1..(n - 2) : c[i] <= c[i + 1]}
DocLists ==
    UNION {UNION {{SplitAt(s, c) : c \in CutsOf(Len(s), n)} : n \in 1..MaxDocs}
               : s \in SeqsUpTo(Terms, MaxTokens)}
NearTieCorpus ==
    MakeCorpus(<< <<"a", "b", "b", "b">>, <<"b">>, <<"c">>, <<"c">>,
                  <<"c">>, <<"c">>, <<"c">>, <<"c">> >>)
Corpora ==
    {<<>>} \cup {MakeCorpus(docs) : docs \in DocLists}
        \cup {ScenarioCorpus, NearTieCorpus}

RankInit ==
    /\ corpus \in Corpora
    /\ k \in 0..MaxK
    /\ pc = "call"
    /\ idx = 0
    /\ k_most_salient = <<>>
    /\ fms_err = "none"
    /\ idf_calls = {}

RankIdle ==
    /\ corpus = <<>> /\ k = 0 /\ pc = "idle" /\ idx = 0
    /\ k_most_salient = <<>> /\ fms_err = "none" /\ idf_calls = {}

\* k_most_salient = {}
FmsEnter ==
    /\ pc = "call"
    /\ k_most_salient' = <<>>
    /\ idx' = 0
    /\ pc' = "loop"
    /\ UNCHANGED <<corpus, k, fms_err, idf_calls>>
    /\ UNCHANGED <<tokVars, tfVars, idfVars, buildVars, compVars>>

\* for doc_id, tokens in corpus.items(): ... k_most_salient[doc_id] = ...
FmsDocument ==
    /\ pc = "loop"
    /\ idx < Len(corpus)
    /\ LET doc_id == corpus[idx + 1].key
           tokens == corpus[idx + 1].val
           r == most_salient_by_doc(tokens, corpus, k)
           after == objects_after_document(corpus, k_most_salient, doc_id, r.val)
       IN /\ idf_calls' = idf_calls \cup idf_calls_of(tokens, corpus)
          /\ IF r.err # "none"
             THEN /\ fms_err' = r.err
                  /\ pc' = "raised"
                  /\ UNCHANGED <<corpus, idx, k_most_salient>>
             ELSE /\ corpus' = after.corpus
                  /\ k_most_salient' = after.k_most_salient
                  /\ idx' = idx + 1
                  /\ pc' = "loop"
                  /\ UNCHANGED fms_err
    /\ UNCHANGED k
    /\ UNCHANGED <<tokVars, tfVars, idfVars, buildVars, compVars>>

\* return k_most_salient
FmsReturn ==
    /\ pc = "loop"
    /\ idx = Len(corpus)
    /\ pc' = "done"
    /\ UNCHANGED <<corpus, k, idx, k_most_salient, fms_err, idf_calls>>
    /\ UNCHANGED <<tokVars, tfVars, idfVars, buildVars, compVars>>

----------------------------------------------------------------------------
(* create_list_tokens.  A character is one of a few representatives of the  *)
(* classes the two regular expressions and str.lower tell apart.           *)

LowerLetters == {"a", "b"}
UpperLetters == {"A", "B"}
\* "7": an ASCII digit.  "U+0663": ARABIC-INDIC DIGIT THREE, a decimal digit
\* that \w matches and [0-9] does not.
AsciiDigits == {"7"}
OtherDigits == {"U+0663"}
\* "!": punctuation outside \w.  "_": punctuation inside \w.
Whitespace == {" "}

IsSpace(c) == c \in Whitespace
\* \w of a str pattern: letters, decimal digits and the underscore.
IsWord(c) == c \in LowerLetters \cup UpperLetters \cup AsciiDigits \cup OtherDigits \cup {"_"}
Lower(c) == CASE c = "A" -> "a" [] c = "B" -> "b" [] OTHER -> c

\* str.split(): the maximal runs of non-whitespace characters, in order.
RECURSIVE StrSplitFrom(_, _, _)
StrSplitFrom(s, cur, out) ==
    IF s = <<>> THEN (IF cur = <<>> THEN out ELSE Append(out, cur))
    ELSE IF IsSpace(Head(s))
         THEN StrSplitFrom(Tail(s), <<>>, IF cur = <<>> THEN out ELSE Append(out, cur))
         ELSE StrSplitFrom(Tail(s), Append(cur, Head(s)), out)
StrSplit(s) == StrSplitFrom(s, <<>>, <<>>)

\* re.sub(r'[^\w\s]', '', token)
KeptByFirstSub(c) == IsWord(c) \/ IsSpace(c)
stripped_token(token) == SelectSeq(token, KeptByFirstSub)
\* re.sub(r'[0-9]', '', stripped_token).lower()
KeptBySecondSub(c) == c \notin AsciiDigits
cleaned_token(token) ==
    LET t == SelectSeq(stripped_token(token), KeptBySecondSub)
    IN [i \in 1..Len(t) |-> Lower(t[i])]

\* The loop of create_list_tokens over raw_tokens.
RECURSIVE CleanedFrom(_, _)
CleanedFrom(raw, cleaned) ==
    IF raw = <<>> THEN cleaned
    ELSE CleanedFrom(Tail(raw),
                     IF cleaned_token(Head(raw)) # <<>>
                     THEN Append(cleaned, cleaned_token(Head(raw))) ELSE cleaned)
create_list_tokens(doc) == CleanedFrom(StrSplit(doc), <<>>)

\* The longest input string of the tokenizer's runs.
MaxChars == 3
Chars == {"a", "A", "7", "!", "_", " ", "U+0663"}

TokInit ==
    /\ document \in SeqsUpTo(Chars, MaxChars)
    /\ raw_tokens = <<>> /\ tok_i = 0 /\ cleaned_list = <<>> /\ tok_pc = "call"
TokIdle ==
    /\ document = <<>> /\ raw_tokens = <<>> /\ tok_i = 0 /\ cleaned_list = <<>>
    /\ tok_pc = "idle"

\* raw_tokens = document.split(); cleaned_list = []
TokSplit ==
    /\ tok_pc = "call"
    /\ raw_tokens' = StrSplit(document)
    /\ cleaned_list' = <<>>
    /\ tok_i' = 0
    /\ tok_pc' = "loop"
    /\ UNCHANGED document
    /\ UNCHANGED <<rankVars, tfVars, idfVars, buildVars, compVars>>

\* One iteration of "for token in raw_tokens".
TokToken ==
    /\ tok_pc = "loop"
    /\ tok_i < Len(raw_tokens)
    /\ LET token == raw_tokens[tok_i + 1]
       IN cleaned_list' = IF cleaned_token(token) # <<>>
                          THEN Append(cleaned_list, cleaned_token(token))
                          ELSE cleaned_list
    /\ tok_i' = tok_i + 1
    /\ UNCHANGED <<document, raw_tokens, tok_pc>>
    /\ UNCHANGED <<rankVars, tfVars, idfVars, buildVars, compVars>>

\* return cleaned_list
TokReturn ==
    /\ tok_pc = "loop"
    /\ tok_i = Len(raw_tokens)
    /\ tok_pc' = "done"
    /\ UNCHANGED <<document, raw_tokens, tok_i, cleaned_list>>
    /\ UNCHANGED <<rankVars, tfVars, idfVars, buildVars, compVars>>

----------------------------------------------------------------------------
(* Runs of calculate_tf and of calculate_idf. *)

\* The count maps count_distinct_tokens builds from a token list.
CountMaps == {count_distinct_tokens(d, <<>>) : d \in SeqsUpTo(Terms, MaxTokens)}

TfInit ==
    /\ token_counts \in CountMaps
    /\ tf_term \in Terms \cup {AbsentTerm}
    /\ tf_pc = "call"
    /\ tf_result = Ok(FloatZero)
TfIdle ==
    /\ token_counts = <<>> /\ tf_term = AbsentTerm /\ tf_pc = "idle"
    /\ tf_result = Ok(FloatZero)

TfCall ==
    /\ tf_pc = "call"
    /\ tf_result' = calculate_tf(tf_term, token_counts)
    /\ tf_pc' = "done"
    /\ UNCHANGED <<tf_term, token_counts>>
    /\ UNCHANGED <<rankVars, tokVars, idfVars, buildVars, compVars>>

IdfInit ==
    /\ idf_corpus \in Corpora
    /\ idf_term \in Terms \cup {AbsentTerm}
    /\ idf_pc = "call"
    /\ idf_result = Ok(FloatZero)
IdfIdle ==
    /\ idf_corpus = <<>> /\ idf_term = AbsentTerm /\ idf_pc = "idle"
    /\ idf_result = Ok(FloatZero)

IdfCall ==
    /\ idf_pc = "call"
    /\ idf_result' = calculate_idf(idf_term, idf_corpus)
    /\ idf_pc' = "done"
    /\ UNCHANGED <<idf_term, idf_corpus>>
    /\ UNCHANGED <<rankVars, tokVars, tfVars, buildVars, compVars>>

----------------------------------------------------------------------------
(* build_simple_corpus(df, index, doc_col, filter_by).  A row of df has the *)
(* columns episode (index), quote (doc_col: missing, or a string) and      *)
(* season (the column a filter names).                                     *)

\* The most rows of a dataset.
MaxRows == 3

Episodes == {"e1", "e2"}
Seasons == {1, 2}
\* "a"; "b A", two tokens; "7", a text without tokens.
Texts == {<<"a">>, <<"b", " ", "A">>, <<"7">>}
Missing == [na |-> TRUE, text |-> <<>>]
Quotes == {Missing} \cup {[na |-> FALSE, text |-> t] : t \in Texts}
Rows == [episode : Episodes, quote : Quotes, season : Seasons]
NoFilter == [given |-> FALSE, col |-> "", val |-> 0]
Filters == {NoFilter} \cup {[given |-> TRUE, col |-> "season", val |-> v] : v \in Seasons}

\* df.loc[df[doc_col].notna(), :]
NotNa(row) == ~row.quote.na
\* df['terms'] = df.apply(lambda row: create_list_tokens(row[doc_col]), axis=1)
WithTerms(rows) ==
    [i \in 1..Len(rows) |->
        [episode |-> rows[i].episode, terms |-> create_list_tokens(rows[i].quote.text)]]

\* if id not in corpus: corpus[id] = doc  else: corpus[id].extend(doc)
corpus_after_row(cps, id, doc) ==
    IF ~DictHas(cps, id) THEN DictSet(cps, id, doc)
    ELSE DictSet(cps, id, DictGet(cps, id) \o doc)

\* The frame after the same.  corpus[id] = doc stores the row's own list, so
\* corpus[id].extend(doc) also lengthens the terms of the row that list came
\* from: the first row of the frame with that id.
frame_after_row(fr, cps, id, doc) ==
    IF ~DictHas(cps, id) THEN fr
    ELSE LET first == CHOOSE j \in 1..Len(fr) :
                          /\ fr[j].episode = id
                          /\ \A h \in 1..(j - 1) : fr[h].episode # id
         IN [fr EXCEPT ![first].terms = @ \o doc]

BuildInit ==
    /\ df \in SeqsUpTo(Rows, MaxRows)
    /\ filter_by \in Filters
    /\ frame = <<>> /\ row_i = 0 /\ b_corpus = <<>> /\ b_pc = "call" /\ b_err = "none"
BuildIdle ==
    /\ df = <<>> /\ filter_by = NoFilter
    /\ frame = <<>> /\ row_i = 0 /\ b_corpus = <<>> /\ b_pc = "idle" /\ b_err = "none"

\* corpus = {}; if filter_by: filter_col, filter_val = limit_by
\* limit_by is no name of the function or the module: a NameError.
BuildFilter ==
    /\ b_pc = "call"
    /\ filter_by.given
    /\ b_corpus' = <<>>
    /\ b_err' = "NameError"
    /\ b_pc' = "raised"
    /\ UNCHANGED <<df, filter_by, frame, row_i>>
    /\ UNCHANGED <<rankVars, tokVars, tfVars, idfVars, compVars>>

\* corpus = {}; filter_by is None
BuildNoFilter ==
    /\ b_pc = "call"
    /\ ~filter_by.given
    /\ b_corpus' = <<>>
    /\ b_pc' = "notna"
    /\ UNCHANGED <<df, filter_by, frame, row_i, b_err>>
    /\ UNCHANGED <<rankVars, tokVars, tfVars, idfVars, compVars>>

\* Lines 263-264 on a frame that keeps a row: the rows with a value, and
\* their token lists.
BuildTokenize ==
    /\ b_pc = "notna"
    /\ SelectSeq(df, NotNa) # <<>>
    /\ frame' = WithTerms(SelectSeq(df, NotNa))
    /\ row_i' = 0
    /\ b_pc' = "loop"
    /\ UNCHANGED <<df, filter_by, b_corpus, b_err>>
    /\ UNCHANGED <<rankVars, tokVars, tfVars, idfVars, compVars>>

\* Line 264 on a frame without rows: DataFrame.apply returns a frame, not a
\* column, and the assignment of a frame to df['terms'] is a ValueError.
BuildEmptyFrameRaises ==
    /\ b_pc = "notna"
    /\ SelectSeq(df, NotNa) = <<>>
    /\ b_err' = "ValueError"
    /\ b_pc' = "raised"
    /\ UNCHANGED <<df, filter_by, frame, row_i, b_corpus>>
    /\ UNCHANGED <<rankVars, tokVars, tfVars, idfVars, compVars>>

\* One iteration of "for i in range(len(df))".
BuildRow ==
    /\ b_pc = "loop"
    /\ row_i < Len(frame)
    /\ LET id == frame[row_i + 1].episode
           doc == frame[row_i + 1].terms
       IN /\ b_corpus' = corpus_after_row(b_corpus, id, doc)
          /\ frame' = frame_after_row(frame, b_corpus, id, doc)
    /\ row_i' = row_i + 1
    /\ UNCHANGED <<df, filter_by, b_pc, b_err>>
    /\ UNCHANGED <<rankVars, tokVars, tfVars, idfVars, compVars>>

\* return corpus
BuildReturn ==
    /\ b_pc = "loop"
    /\ row_i = Len(frame)
    /\ b_pc' = "done"
    /\ UNCHANGED <<df, filter_by, frame, row_i, b_corpus, b_err>>
    /\ UNCHANGED <<rankVars, tokVars, tfVars, idfVars, compVars>>

----------------------------------------------------------------------------
(* build_comprehensive_corpus(trans_df, ep_df).  A row of trans_df has the   *)
(* columns episode, speaker (missing, or a string) and quote; a row of     *)
(* ep_df has the columns title and season.  A value of the result dict is  *)
(* None or a dict season -> (episode -> document).                         *)

\* The most rows of the episode dataset.
MaxEpRows == 2

\* "e1" has metadata rows to match, "e2" has none.
Titles == {"e1", "e3"}
Speakers == {[na |-> TRUE, text |-> <<>>],
             [na |-> FALSE, text |-> <<"S">>],
             [na |-> FALSE, text |-> <<"L", "a">>]}
TransQuotes == {Missing, [na |-> FALSE, text |-> <<"a">>]}
TransRows == [episode : Episodes, speaker : Speakers, quote : TransQuotes]
EpRows == [title : Titles, season : Seasons]
NoneValue == [none |-> TRUE, seasons |-> <<>>]

\* Series.unique(): the values in the order of their first appearance.
RECURSIVE Unique(_, _)
Unique(values, seen) ==
    IF values = <<>> THEN seen
    ELSE Unique(Tail(values),
                IF \E i \in 1..Len(seen) : seen[i] = Head(values)
                THEN seen ELSE Append(seen, Head(values)))

\* ', '.join(speaker) for a str: its characters with ", " between them.
RECURSIVE JoinCharacters(_)
JoinCharacters(str) ==
    IF Len(str) <= 1 THEN str
    ELSE <<Head(str), ", ">> \o JoinCharacters(Tail(str))

\* Line 308: {', '.join(speaker): None for speaker in trans_df.speaker.unique()}
RECURSIVE SpeakerKeys(_, _)
SpeakerKeys(speakers, cps) ==
    IF speakers = <<>> THEN cps
    ELSE SpeakerKeys(Tail(speakers),
                     DictSet(cps, JoinCharacters(Head(speakers).text), NoneValue))

\* Line 310: the inner join on episode = title, in the order of the left rows.
RECURSIVE MatchesOf(_, _)
MatchesOf(row, eps) ==
    IF eps = <<>> THEN <<>>
    ELSE (IF Head(eps).title = row.episode
          THEN <<[episode |-> row.episode, speaker |-> row.speaker,
                  quote |-> row.quote, title |-> Head(eps).title,
                  season |-> Head(eps).season]>>
          ELSE <<>>)
         \o MatchesOf(row, Tail(eps))
RECURSIVE Merge(_, _)
Merge(trans, eps) ==
    IF trans = <<>> THEN <<>>
    ELSE MatchesOf(Head(trans), eps) \o Merge(Tail(trans), eps)

ColumnOfSpeakers(rows) == [i \in 1..Len(rows) |-> rows[i].speaker]
ColumnOfSeasons(rows) == [i \in 1..Len(rows) |-> rows[i].season]

CompInit ==
    /\ trans_df \in SeqsUpTo(TransRows, MaxRows)
    /\ ep_df \in SeqsUpTo(EpRows, MaxEpRows)
    /\ merged_df = <<>> /\ c_corpus = <<>> /\ c_pc = "call" /\ c_err = "none"
CompIdle ==
    /\ trans_df = <<>> /\ ep_df = <<>>
    /\ merged_df = <<>> /\ c_corpus = <<>> /\ c_pc = "idle" /\ c_err = "none"

\* Line 308.  str.join of a missing speaker (a float) is a TypeError.
CompKeys ==
    /\ c_pc = "call"
    /\ LET speakers == Unique(ColumnOfSpeakers(trans_df), <<>>)
       IN IF \E i \in 1..Len(speakers) : speakers[i].na
          THEN /\ c_err' = "TypeError"
               /\ c_pc' = "raised"
               /\ UNCHANGED c_corpus
          ELSE /\ c_corpus' = SpeakerKeys(speakers, <<>>)
               /\ c_pc' = "merge"
               /\ UNCHANGED c_err
    /\ UNCHANGED <<trans_df, ep_df, merged_df>>
    /\ UNCHANGED <<rankVars, tokVars, tfVars, idfVars, buildVars>>

\* Line 310.
CompMerge ==
    /\ c_pc = "merge"
    /\ merged_df' = Merge(trans_df, ep_df)
    /\ c_pc' = "loop"
    /\ UNCHANGED <<trans_df, ep_df, c_corpus, c_err>>
    /\ UNCHANGED <<rankVars, tokVars, tfVars, idfVars, buildVars>>

\* Lines 315-317, the first iteration of "for season in
\* merged_df.season.unique()": the arguments of build_simple_corpus name
\* episode and quote, which are names of nothing: a NameError.
CompSeason ==
    /\ c_pc = "loop"
    /\ Unique(ColumnOfSeasons(merged_df), <<>>) # <<>>
    /\ c_err' = "NameError"
    /\ c_pc' = "raised"
    /\ UNCHANGED <<trans_df, ep_df, merged_df, c_corpus>>
    /\ UNCHANGED <<rankVars, tokVars, tfVars, idfVars, buildVars>>

\* Line 328, the merged frame having no season to iterate over.
CompReturn ==
    /\ c_pc = "loop"
    /\ Unique(ColumnOfSeasons(merged_df), <<>>) = <<>>
    /\ c_pc' = "done"
    /\ UNCHANGED <<trans_df, ep_df, merged_df, c_corpus, c_err>>
    /\ UNCHANGED <<rankVars, tokVars, tfVars, idfVars, buildVars>>

----------------------------------------------------------------------------
(* Specifications: one per operation; the other operations stay idle. *)

Init == RankInit /\ TokIdle /\ TfIdle /\ IdfIdle /\ BuildIdle /\ CompIdle
Next == FmsEnter \/ FmsDocument \/ FmsReturn
Spec == Init /\ [][Next]_vars

InitTok == TokInit /\ RankIdle /\ TfIdle /\ IdfIdle /\ BuildIdle /\ CompIdle
NextTok == TokSplit \/ TokToken \/ TokReturn
SpecTok == InitTok /\ [][NextTok]_vars

InitTf == TfInit /\ RankIdle /\ TokIdle /\ IdfIdle /\ BuildIdle /\ CompIdle
NextTf == TfCall
SpecTf == InitTf /\ [][NextTf]_vars

InitIdf == IdfInit /\ RankIdle /\ TokIdle /\ TfIdle /\ BuildIdle /\ CompIdle
NextIdf == IdfCall
SpecIdf == InitIdf /\ [][NextIdf]_vars

InitBuild == BuildInit /\ RankIdle /\ TokIdle /\ TfIdle /\ IdfIdle /\ CompIdle
NextBuild ==
    BuildFilter \/ BuildNoFilter \/ BuildTokenize \/ BuildEmptyFrameRaises
        \/ BuildRow \/ BuildReturn
SpecBuild == InitBuild /\ [][NextBuild]_vars

InitComp == CompInit /\ RankIdle /\ TokIdle /\ TfIdle /\ IdfIdle /\ BuildIdle
NextComp == CompKeys \/ CompMerge \/ CompSeason \/ CompReturn
SpecComp == InitComp /\ [][NextComp]_vars

----------------------------------------------------------------------------
(* What the properties below measure the ranker against: the counts, the    *)
(* document frequency and the score, read off the corpus itself.           *)

Occurrences(doc, t) == Cardinality({i \in 1..Len(doc) : doc[i] = t})
ModalCount(doc) ==
    CHOOSE m \in {Occurrences(doc, doc[i]) : i \in 1..Len(doc)} :
        \A i \in 1..Len(doc) : Occurrences(doc, doc[i]) <= m
DocFrequency(t, cps) ==
    Cardinality({j \in 1..Len(cps) : \E i \in 1..Len(cps[j].val) : cps[j].val[i] = t})
FirstOccurrence(doc, t) ==
    CHOOSE i \in 1..Len(doc) : doc[i] = t /\ \A j \in 1..(i - 1) : doc[j] # t
\* The score: the floats (0.5 + 0.5 * c / m) and ln(N / df), multiplied.
Score(t, doc, cps) ==
    FloatMul(FloatAdd(Half, FloatMul(Half, TrueDiv(Occurrences(doc, t), ModalCount(doc)))),
             MathLog(Len(cps), DocFrequency(t, cps)))

\* C1: every list find_most_salient has written holds at most k terms of its
\* document, in non-increasing order of tf-idf, and of two terms of equal
\* score the one that occurs first in the document comes first.
C1_TopTermsOrdered ==
    \A s \in 1..Len(k_most_salient) :
        LET doc == DictGet(corpus, k_most_salient[s].key)
            r == k_most_salient[s].val
        IN /\ Len(r) <= k
           /\ \A i \in 1..Len(r) : \E j \in 1..Len(doc) : doc[j] = r[i]
           /\ LET score == [i \in 1..Len(r) |-> Score(r[i], doc, corpus)]
              IN \A i \in 1..Len(r) : \A j \in (i + 1)..Len(r) :
                     \/ FloatLess(score[j], score[i])
                     \/ /\ score[i] = score[j]
                        /\ FirstOccurrence(doc, r[i]) < FirstOccurrence(doc, r[j])

\* A finished run with a list whose two first terms tie at a nonzero score
\* and stand before an earlier term of the document that scores less.
C1_Witness ==
    /\ pc = "done"
    /\ \E s \in 1..Len(k_most_salient) :
        LET doc == DictGet(corpus, k_most_salient[s].key)
            r == k_most_salient[s].val
        IN /\ Len(r) >= 2
           /\ Score(r[1], doc, corpus) = Score(r[2], doc, corpus)
           /\ FloatLess(FloatZero, Score(r[1], doc, corpus))
           /\ FirstOccurrence(doc, r[1]) > 1

\* C2: on the scenario corpus with k = 1 the result is d1: [a], d2: [b],
\* d3: [c].
C2_Scenario ==
    (pc = "done" /\ corpus = ScenarioCorpus /\ k = 1)
        => k_most_salient = << [key |-> "d1", val |-> <<"a">>],
                               [key |-> "d2", val |-> <<"b">>],
                               [key |-> "d3", val |-> <<"c">>] >>

\* The scenario has run to its end.
C2_Witness == pc = "done" /\ corpus = ScenarioCorpus /\ k = 1

\* C6 (as claimed): on a corpus without documents find_most_salient does not
\* return; it fails with an empty-corpus error.
C6_EmptyCorpusFails ==
    corpus = <<>> =>
        /\ pc # "done"
        /\ pc = "raised" => fms_err = "EmptyCorpusError"

\* C7: find_most_salient raises nothing; when it returns every document has
\* a list, and the list is empty when k = 0 or the document has no token.
C7_EmptyLists ==
    /\ pc # "raised"
    /\ fms_err = "none"
    /\ pc = "done" =>
        \A d \in 1..Len(corpus) :
            /\ DictHas(k_most_salient, corpus[d].key)
            /\ (k = 0 \/ corpus[d].val = <<>>)
                   => DictGet(k_most_salient, corpus[d].key) = <<>>

\* A finished run with k = 0 on a corpus with a document that has tokens and
\* a document that has none.
C7_Witness ==
    /\ pc = "done"
    /\ k = 0
    /\ \E d \in 1..Len(corpus) : corpus[d].val = <<>>
    /\ \E d \in 1..Len(corpus) : Len(corpus[d].val) >= 2

\* C8: the list returned for a document with k is the list returned with
\* k + 1 cut to its first k terms (the same list when it has at most k).
C8_PrefixOfNext ==
    pc = "done" =>
        \A d \in 1..Len(corpus) :
            LET r == DictGet(k_most_salient, corpus[d].key)
                r1 == most_salient_by_doc(corpus[d].val, corpus, k + 1).val
            IN IF Len(r1) > k THEN r = SubSeq(r1, 1, k) ELSE r = r1

\* A finished run with k >= 1 in which a document has more than k terms.
C8_Witness ==
    /\ pc = "done"
    /\ k >= 1
    /\ \E d \in 1..Len(corpus) :
           Len(most_salient_by_doc(corpus[d].val, corpus, k + 1).val) > k

----------------------------------------------------------------------------
(* The tokenizer. *)

\* str.isdecimal, and the punctuation of string.punctuation.
IsDecimalDigit(c) == c \in AsciiDigits \cup OtherDigits
IsPunctuation(c) == c \in {"!", "_"}
NonEmpty(t) == t # <<>>

\* C3 (as claimed): every token create_list_tokens returns is non-empty and
\* holds no upper-case letter, no decimal digit and no punctuation character
\* (the underscore included), and the tokens are the cleaned fragments of
\* the input that are not empty, in the fragments' order.
C3_TokensClean ==
    tok_pc = "done" =>
        /\ \A n \in 1..Len(cleaned_list) :
               /\ cleaned_list[n] # <<>>
               /\ \A i \in 1..Len(cleaned_list[n]) :
                      /\ cleaned_list[n][i] \notin UpperLetters
                      /\ ~IsDecimalDigit(cleaned_list[n][i])
                      /\ ~IsPunctuation(cleaned_list[n][i])
        /\ cleaned_list =
               SelectSeq([n \in 1..Len(StrSplit(document)) |->
                              cleaned_token(StrSplit(document)[n])], NonEmpty)

----------------------------------------------------------------------------
(* The frequency model. *)

CountOf(tc, t) == IF DictHas(tc, t) THEN DictGet(tc, t) ELSE 0
MaxCount(tc) ==
    CHOOSE m \in {tc[i].val : i \in 1..Len(tc)} : \A i \in 1..Len(tc) : tc[i].val <= m

\* C4: calculate_tf returns 0 for a term that is not in the count map (so
\* for every term when the map is empty, where looking up the modal count
\* would raise), and otherwise 0.5 + 0.5 * C[t] / max(C.values()): at least
\* 0.5, and exactly 1.0 for the most frequent term.
C4_AugmentedTf ==
    tf_pc = "done" =>
        /\ tf_result.err = "none"
        /\ ~DictHas(token_counts, tf_term) => tf_result.val = FloatZero
        /\ DictHas(token_counts, tf_term) =>
               /\ tf_result.val
                      = FloatAdd(Half, FloatMul(Half, TrueDiv(CountOf(token_counts, tf_term),
                                                              MaxCount(token_counts))))
               /\ FloatLeq(Half, tf_result.val)
               /\ CountOf(token_counts, tf_term) = MaxCount(token_counts)
                      => tf_result.val = One

\* A call for a term that is present and is not the most frequent one.
C4_Witness ==
    /\ tf_pc = "done"
    /\ DictHas(token_counts, tf_term)
    /\ CountOf(token_counts, tf_term) < MaxCount(token_counts)
    /\ FloatLess(Half, tf_result.val)
    /\ FloatLess(tf_result.val, One)

\* C5 (as claimed): calculate_idf for a term that occurs in no document of a
\* corpus with documents fails with a term-not-in-corpus error.
C5_AbsentTermError ==
    (idf_pc = "done" /\ idf_corpus # <<>> /\ DocFrequency(idf_term, idf_corpus) = 0)
        => idf_result.err = "TermNotInCorpusError"

----------------------------------------------------------------------------
(* The corpus builder. *)

PassesFilter(row) == filter_by.given => row.season = filter_by.val

\* The tokens of the rows of rows that carry id and have a text, in row order.
RECURSIVE TokensFor(_, _)
TokensFor(rows, id) ==
    IF rows = <<>> THEN <<>>
    ELSE (IF Head(rows).episode = id /\ ~Head(rows).quote.na
          THEN create_list_tokens(Head(rows).quote.text) ELSE <<>>)
         \o TokensFor(Tail(rows), id)

\* The corpus of rows: a key for each identifier of a row with a text, no key
\* twice, each document the tokens of its rows in row order.
IsCorpusOf(cps, rows) ==
    /\ DictKeys(cps) = {rows[i].episode : i \in {j \in 1..Len(rows) : ~rows[j].quote.na}}
    /\ \A i \in 1..Len(cps) : \A j \in 1..Len(cps) : i # j => cps[i].key # cps[j].key
    /\ \A i \in 1..Len(cps) : cps[i].val = TokensFor(rows, cps[i].key)

\* C9 (as claimed): without a filter build_simple_corpus completes on every
\* dataset, and what it returns is the corpus of the dataset's rows: a key
\* for each identifier of a row with text, no key twice, each document the
\* tokens of its rows in row order (no entry when no row has text).
C9_RowsConcatenated ==
    ~filter_by.given =>
        /\ b_pc # "raised"
        /\ b_pc = "done" => IsCorpusOf(b_corpus, df)

\* C10 (as claimed): with a filter build_simple_corpus completes, and what it
\* returns is the corpus of the rows whose filter column equals the value.
C10_FilteredBuild ==
    filter_by.given =>
        /\ b_pc # "raised"
        /\ b_pc = "done" => IsCorpusOf(b_corpus, SelectSeq(df, PassesFilter))

----------------------------------------------------------------------------
(* The ranker's effects, its idf calls and its termination. *)

\* C12: no step of find_most_salient (with the calls of build_dictionary,
\* calculate_tfidf, calculate_tf, calculate_idf and
\* count_documents_with_term it makes) changes the corpus: its identifiers
\* and every document's token sequence stay as they were.
C12_CorpusUnchanged == [][corpus' = corpus]_vars

\* A finished run on a corpus of several documents that has written a list
\* with terms in it.
C12_Witness ==
    /\ pc = "done"
    /\ Len(corpus) >= 2
    /\ \E s \in 1..Len(k_most_salient) : k_most_salient[s].val # <<>>

\* C13: every call of calculate_idf during a run is for a term that occurs
\* in a document of the corpus, so it divides by a count of at least 1;
\* nothing is raised, and at the return every document has been scored.
C13_IdfTermsInCorpus ==
    /\ \A q \in idf_calls :
           /\ q.docs_with_term >= 1
           /\ DocFrequency(q.term, corpus) >= 1
    /\ pc # "raised" /\ fms_err = "none"
    /\ pc = "done" => DictKeys(k_most_salient) = DictKeys(corpus)

\* A finished run that has called calculate_idf for several terms, one of
\* them missing from a document of the corpus.
C13_Witness ==
    /\ pc = "done"
    /\ Cardinality(idf_calls) >= 2
    /\ \E q \in idf_calls : q.docs_with_term < Len(corpus)

\* The slots written so far are those of the first idx documents, in the
\* corpus's order, one each; at the return all documents have theirs.
SlotsInOrder ==
    /\ Len(k_most_salient) = idx
    /\ \A s \in 1..Len(k_most_salient) : k_most_salient[s].key = corpus[s].key
    /\ pc = "done" => idx = Len(corpus)

\* A step leaves every slot already written as it is.
SlotsKept ==
    \A s \in 1..Len(k_most_salient) :
        /\ s <= Len(k_most_salient')
        /\ k_most_salient'[s] = k_most_salient[s]

\* The steps a run has left: the return, the iterations to come, the entry.
StepsLeft ==
    CASE pc = "call" -> Len(corpus) + 2
      [] pc = "loop" -> (Len(corpus) - idx) + 1
      [] OTHER -> 0

\* The run has returned, or one of its steps is possible: the entry, or, in
\* the loop with idx <= len(corpus), an iteration or the return.
ReturnedOrCanStep ==
    \/ pc = "done"
    \/ pc = "call"
    \/ pc = "loop" /\ idx <= Len(corpus)

\* What every step of a run keeps.
WriteOnceStep ==
    /\ StepsLeft' < StepsLeft
    /\ ReturnedOrCanStep /\ ReturnedOrCanStep'
    /\ SlotsInOrder /\ SlotsInOrder'
    /\ SlotsKept

\* C14: find_most_salient terminates (until it has returned a step is always
\* possible, and every step leaves fewer steps); the slots are written one
\* per document in the corpus's enumeration order, so that the result's keys
\* are the corpus's identifiers, and a slot once written is never changed.
C14_TerminatesWriteOnce == [][WriteOnceStep]_vars

\* A finished run on a corpus of several documents, each with its slot.
C14_Witness ==
    /\ pc = "done"
    /\ Len(corpus) >= 2
    /\ Len(k_most_salient) = Len(corpus)
    /\ \A s \in 1..Len(corpus) : k_most_salient[s].key = corpus[s].key

----------------------------------------------------------------------------
(* The comprehensive corpus. *)

HasMetadata(row) == \E j \in 1..Len(ep_df) : ep_df[j].title = row.episode

\* The tokens of the rows of trans_df of one speaker and episode that have a
\* text, in row order.
RECURSIVE LeafTokens(_, _, _)
LeafTokens(rows, speaker, episode) ==
    IF rows = <<>> THEN <<>>
    ELSE (IF /\ Head(rows).speaker = speaker
             /\ Head(rows).episode = episode
             /\ ~Head(rows).quote.na
          THEN create_list_tokens(Head(rows).quote.text) ELSE <<>>)
         \o LeafTokens(Tail(rows), speaker, episode)

\* The row's tokens are in the leaf of its speaker, a season of its episode
\* and its episode.
InItsLeaf(row) ==
    LET key == JoinCharacters(row.speaker.text)
    IN /\ DictHas(c_corpus, key)
       /\ ~DictGet(c_corpus, key).none
       /\ \E j \in 1..Len(ep_df) :
              /\ ep_df[j].title = row.episode
              /\ LET seasons == DictGet(c_corpus, key).seasons
                 IN /\ DictHas(seasons, ep_df[j].season)
                    /\ DictHas(DictGet(seasons, ep_df[j].season), row.episode)
                    /\ DictGet(DictGet(seasons, ep_df[j].season), row.episode)
                           = LeafTokens(trans_df, row.speaker, row.episode)

\* No season bucket holds the row's episode.
InNoBucket(row) ==
    \A s \in 1..Len(c_corpus) :
        c_corpus[s].val.none
            \/ \A b \in 1..Len(c_corpus[s].val.seasons) :
                   ~DictHas(c_corpus[s].val.seasons[b].val, row.episode)

\* C11 (as claimed): build_comprehensive_corpus does not crash, and in what
\* it returns every transcript row with a text whose episode has a metadata
\* row is in the leaf of its speaker, season and episode, and a row whose
\* episode has none is in no season bucket.
C11_Hierarchy ==
    /\ c_pc # "raised"
    /\ c_pc = "done" =>
        \A i \in 1..Len(trans_df) :
            IF HasMetadata(trans_df[i])
            THEN ~trans_df[i].quote.na => InItsLeaf(trans_df[i])
            ELSE InNoBucket(trans_df[i])

====
